---------------------------- MODULE Spec2Model ----------------------------
(***************************************************************************)
(* Flux-Messenger: chat-session addressing (services/chatService.ts), the  *)
(* presence reconciler of the chat room (components/ChatRoom.tsx) and the  *)
(* presence lifecycle driver of the App component.                         *)
(*                                                                         *)
(* Strings are sequences of UTF-16 code units, timestamps are milliseconds *)
(* (Date.now()).                                                           *)
(***************************************************************************)
EXTENDS Integers, Sequences, FiniteSets, TLC

VARIABLES
    \* ---- chat-session addressing (chatService.ts)
    uid1, uid2,        \* the two arguments of getChatId
    chatId,            \* the value getChatId returned
    participants,      \* chatId.split('_') as sendMessage stores it
    keyPc,             \* "ids" -> "keyed" -> "sent"
    \* ---- chat room presence display (ChatRoom.tsx)
    otherUser,         \* useState(initialOtherUser): the observed user document
    now,               \* useState(Date.now()): the room's local clock sample
    isOnline,          \* const isOnline = isUserReallyOnline(otherUser), as rendered
    statusText,        \* getStatusText(otherUser), as rendered
    \* ---- presence lifecycle driver (App presence effect)
    user,              \* useState(null): the signed-in uid, or NoUser
    visibility,        \* document.visibilityState
    page,              \* "open", or "closed" once the window unloaded
    clock,             \* what Date.now() returns
    gen,               \* how many times the presence effect has run
    mounted,           \* the effect runs whose cleanup React still holds
    listeners,         \* registered visibilitychange/beforeunload handlers
    timers,            \* live setInterval heartbeats, with their due time
    writes,            \* every updateDoc the driver issued, in issue order
    status,            \* per issued write: "pending", "applied", or rejected:
                       \* "logged" (caught) or "unhandled"
    db,                \* the users collection: uid -> document
    \* ---- what sendMessage writes (chatService.ts)
    messages,          \* the messages collection, in the order addDoc added
    chats,             \* the chats collection: a set of chat documents
    \* ---- a second device running the App (presence effect)
    second,            \* its signed-in uid, visibilityState and heartbeat due time
    \* ---- messaging in the chat rooms of the two participants (ChatRoom.tsx)
    rooms,             \* per participant: inputText, isSending, messages (the list)
    calls,             \* the sendMessage calls in flight, with the write each awaits
    \* ---- accounts, registration and navigation (Auth.tsx, App)
    accounts,          \* the uids that have an account of the auth service
    regs,              \* per client: how far its Auth.handleSubmit registration is
    app,               \* the App of client c1: user, userProfile, loading, view,
                       \* activeChat
    fetches            \* the getDoc calls of that App still awaited

keyVars == <<uid1, uid2, chatId, participants, keyPc>>

roomVars == <<otherUser, now, isOnline, statusText>>

driverVars == <<user, visibility, page, clock, gen, mounted, listeners,
                timers, writes, status, db>>

storeVars == <<messages, chats>>

deviceVars == <<second>>

chatVars == <<rooms, calls>>

appVars == <<accounts, regs, app, fetches>>

vars == <<keyVars, roomVars, driverVars, storeVars, deviceVars, chatVars,
          appVars>>

-----------------------------------------------------------------------------
(* Bounds *)

\* longest identifier drawn from the alphabet
MaxLen == 3

\* a present-day Date.now() reading, the origin of the model's clock window
Base == 200000000

\* how many times the room's 30 s interval refreshes `now`
MaxNowTicks == 2

\* how many updateDoc calls of the driver a run follows
MaxWrites == 3

\* how many times the presence effect runs (sign-ins)
MaxGen == 2

\* how many steps of TimeStep the driver's clock advances
MaxClockSteps == 2

\* how many updateDoc calls of the driver a run on the time line follows
MaxScenarioWrites == 5

\* how many heartbeat periods the time line spans
MaxBeats == 4

\* how many steps of TimeStep the time line of client and observer spans
MaxLiveSteps == 12

\* how many updateDoc calls of the driver a run of the whole client follows
MaxAccountWrites == 2

\* how many messages a run sends
MaxMessages == 1

\* how many sendMessage calls of the chat rooms a run follows to the store
MaxSends == 3

\* how many message documents arrive in the store while a room lists them
MaxArrivals == 2

\* how many getDoc calls of the App are awaited at once
MaxFetches == 2

-----------------------------------------------------------------------------
(* Strings as sequences of code units *)

\* '_' , the join and split delimiter
Delim == 95

\* '1' < '_' < 'a' in code-unit order: one unit on each side of the delimiter
Alphabet == {49, Delim, 97}

RECURSIVE StringsOfLen(_)
StringsOfLen(n) ==
    IF n = 0 THEN {<<>>}
    ELSE {Append(s, c) : s \in StringsOfLen(n - 1), c \in Alphabet}

\* "a1" and "b2", the raw ids of the documented scenario
ExampleIds == {<<97, 49>>, <<98, 50>>}

Ids == UNION {StringsOfLen(n) : n \in 0..MaxLen} \cup ExampleIds

HasDelim(s) == \E i \in 1..Len(s) : s[i] = Delim

\* s < t as Array.prototype.sort compares strings without a comparator:
\* code unit by code unit, a proper prefix first
RECURSIVE StrLess(_, _)
StrLess(s, t) ==
    IF t = <<>> THEN FALSE
    ELSE IF s = <<>> THEN TRUE
    ELSE IF Head(s) # Head(t) THEN Head(s) < Head(t)
    ELSE StrLess(Tail(s), Tail(t))

\* [x, y].sort()
SortPair(x, y) == IF StrLess(y, x) THEN <<y, x>> ELSE <<x, y>>

\* arr.join('_')
RECURSIVE Join(_)
Join(arr) ==
    IF arr = <<>> THEN <<>>
    ELSE IF Len(arr) = 1 THEN arr[1]
    ELSE arr[1] \o <<Delim>> \o Join(Tail(arr))

\* str.split('_'): cut at every delimiter, empty pieces kept
RECURSIVE SplitFrom(_, _)
SplitFrom(s, piece) ==
    IF s = <<>> THEN <<piece>>
    ELSE IF Head(s) = Delim THEN <<piece>> \o SplitFrom(Tail(s), <<>>)
    ELSE SplitFrom(Tail(s), Append(piece, Head(s)))

Split(s) == SplitFrom(s, <<>>)

\* faulty variant: the ids are joined in argument order
GetChatIdUnsorted(a, b) == Join(<<a, b>>)

\* faulty variant: the larger id first
GetChatIdDescending(a, b) == Join(<<SortPair(a, b)[2], SortPair(a, b)[1]>>)

\* faulty variant: the ids are concatenated without the delimiter
GetChatIdNoDelim(a, b) == SortPair(a, b)[1] \o SortPair(a, b)[2]

\* getChatId: [uid1, uid2].sort().join('_')
getChatId(a, b) == Join(SortPair(a, b))

\* faulty variant: split with a limit of one piece, chatId.split('_', 1)
ParticipantsFromKeyFirstPiece(key) == <<Split(key)[1]>>

\* participants: chatId.split('_')
participantsFromKey(key) == Split(key)

-----------------------------------------------------------------------------
(* Documents: a document is a record of the fields it has; a field that is  *)
(* absent (undefined) is not in its DOMAIN.                                 *)

Has(d, f) == f \in DOMAIN d

\* updateDoc(ref, fields): the given fields replace, the others stay
Merge(d, fields) ==
    [f \in DOMAIN d \cup DOMAIN fields |->
        IF f \in DOMAIN fields THEN fields[f] ELSE d[f]]

\* !user.isOnline
IsOnlineFalsy(profile) == ~Has(profile, "isOnline") \/ profile.isOnline = FALSE

\* !user.lastSeen: undefined, or the number 0
LastSeenFalsy(profile) == ~Has(profile, "lastSeen") \/ profile.lastSeen = 0

EmptyDoc == [x \in {} |-> 0]

\* the two accounts of the model
Users == {"u1", "u2"}

NoUser == "null"

\* no message has been sent
StoreIdle == messages = <<>> /\ chats = {}

\* every chat room with an empty input, nothing being sent, no message listed
ChatIdle ==
    /\ rooms = [p \in Users |-> [inputText |-> <<>>, isSending |-> FALSE,
                                 list |-> <<>>]]
    /\ calls = <<>>

\* no second device is signed in
DeviceIdle == second = [user |-> NoUser, visibility |-> "visible", due |-> 0]

\* the browsers that run the application: the App of c1 is followed, c2 only
\* registers
Clients == {"c1", "c2"}

\* useState<UserProfile | null>(null)
NoProfile == [uid |-> NoUser, username |-> <<>>]

\* useState<{ otherUser, chatId } | null>(null)
NoChat == [otherUser |-> NoUser, chatId |-> <<>>]

\* an Auth form that is not submitting
NoReg == [pc |-> "idle", username |-> <<>>, uid |-> NoUser]

\* the App as constructed: useState(null), useState(null), useState(true),
\* useState('chats'), useState(null)
NewApp ==
    [user |-> NoUser, userProfile |-> NoProfile, loading |-> TRUE,
     view |-> "chats", activeChat |-> NoChat]

\* nobody has an account, no form is submitting, the App was just constructed
AppIdle ==
    /\ accounts = {}
    /\ regs = [c \in Clients |-> NoReg]
    /\ app = NewApp
    /\ fetches = <<>>

KeyIdle ==
    /\ uid1 = <<>> /\ uid2 = <<>> /\ chatId = <<>> /\ participants = <<>>
    /\ keyPc = "ids"

DriverIdle ==
    /\ user = NoUser
    /\ visibility = "visible"
    /\ page = "open"
    /\ clock = 0
    /\ gen = 0
    /\ mounted = {}
    /\ listeners = {}
    /\ timers = {}
    /\ writes = <<>>
    /\ status = <<>>
    /\ db = [u \in Users |-> EmptyDoc]

-----------------------------------------------------------------------------
(* Presence reconciler of the chat room *)

\* the freshness window of the smart status check, ms
FreshnessWindow == 120000

\* the period of the room's `now` interval, ms
NowPeriod == 30000

MsPerMinute == 60000

\* faulty variant: a heartbeat exactly 120000 ms old still counts as fresh
IsUserReallyOnlineInclusive(profile, t) ==
    IF IsOnlineFalsy(profile) THEN FALSE
    ELSE IF LastSeenFalsy(profile) THEN FALSE
    ELSE (t - profile.lastSeen) <= FreshnessWindow

\* faulty variant: the stored flag is not consulted, only the heartbeat age
IsUserReallyOnlineIgnoresFlag(profile, t) ==
    IF LastSeenFalsy(profile) THEN FALSE
    ELSE (t - profile.lastSeen) < FreshnessWindow

\* faulty variant: a set flag without any heartbeat counts as online
IsUserReallyOnlineWithoutHeartbeat(profile, t) ==
    IF IsOnlineFalsy(profile) THEN FALSE
    ELSE IF LastSeenFalsy(profile) THEN TRUE
    ELSE (t - profile.lastSeen) < FreshnessWindow

\* faulty variant: the persisted flag alone decides
IsUserReallyOnlineFlagOnly(profile, t) == ~IsOnlineFalsy(profile)

\* faulty variant: the freshness window is twice as long
IsUserReallyOnlineLongWindow(profile, t) ==
    IF IsOnlineFalsy(profile) THEN FALSE
    ELSE IF LastSeenFalsy(profile) THEN FALSE
    ELSE (t - profile.lastSeen) < 2 * FreshnessWindow

isUserReallyOnline(profile, t) ==
    IF IsOnlineFalsy(profile) THEN FALSE
    ELSE IF LastSeenFalsy(profile) THEN FALSE
    ELSE (t - profile.lastSeen) < FreshnessWindow

\* faulty variant: the label trusts the persisted flag, not the smart check
GetStatusTextByFlag(profile, t, online) ==
    IF ~IsOnlineFalsy(profile) THEN [tier |-> "Online"]
    ELSE IF LastSeenFalsy(profile) THEN [tier |-> "Offline"]
    ELSE LET diff == t - profile.lastSeen
             minutes == diff \div MsPerMinute
             hours == minutes \div 60
             days == hours \div 24
         IN  IF minutes < 2 THEN [tier |-> "justNow"]
             ELSE IF minutes < 60 THEN [tier |-> "minutesAgo", n |-> minutes]
             ELSE IF hours < 24 THEN [tier |-> "today", at |-> profile.lastSeen]
             ELSE IF days < 2 THEN [tier |-> "yesterday"]
             ELSE [tier |-> "date", at |-> profile.lastSeen]

\* faulty variant: the yesterday tier also takes whole days equal to 2
GetStatusTextDaysInclusive(profile, t, online) ==
    IF online THEN [tier |-> "Online"]
    ELSE IF LastSeenFalsy(profile) THEN [tier |-> "Offline"]
    ELSE LET diff == t - profile.lastSeen
             minutes == diff \div MsPerMinute
             hours == minutes \div 60
             days == hours \div 24
         IN  IF minutes < 2 THEN [tier |-> "justNow"]
             ELSE IF minutes < 60 THEN [tier |-> "minutesAgo", n |-> minutes]
             ELSE IF hours < 24 THEN [tier |-> "today", at |-> profile.lastSeen]
             ELSE IF days <= 2 THEN [tier |-> "yesterday"]
             ELSE [tier |-> "date", at |-> profile.lastSeen]

\* faulty variant: the minutes tier also takes 60 whole minutes
GetStatusTextMinutesInclusive(profile, t, online) ==
    IF online THEN [tier |-> "Online"]
    ELSE IF LastSeenFalsy(profile) THEN [tier |-> "Offline"]
    ELSE LET diff == t - profile.lastSeen
             minutes == diff \div MsPerMinute
             hours == minutes \div 60
             days == hours \div 24
         IN  IF minutes < 2 THEN [tier |-> "justNow"]
             ELSE IF minutes <= 60 THEN [tier |-> "minutesAgo", n |-> minutes]
             ELSE IF hours < 24 THEN [tier |-> "today", at |-> profile.lastSeen]
             ELSE IF days < 2 THEN [tier |-> "yesterday"]
             ELSE [tier |-> "date", at |-> profile.lastSeen]

\* the label as its tier, with the N of the minutes tier and the timestamp
\* the today and date tiers render
getStatusText(profile, t, online) ==
    IF online THEN [tier |-> "Online"]
    ELSE IF LastSeenFalsy(profile) THEN [tier |-> "Offline"]
    ELSE LET diff == t - profile.lastSeen
             minutes == diff \div MsPerMinute
             hours == minutes \div 60
             days == hours \div 24
         IN  IF minutes < 2 THEN [tier |-> "justNow"]
             ELSE IF minutes < 60 THEN [tier |-> "minutesAgo", n |-> minutes]
             ELSE IF hours < 24 THEN [tier |-> "today", at |-> profile.lastSeen]
             ELSE IF days < 2 THEN [tier |-> "yesterday"]
             ELSE [tier |-> "date", at |-> profile.lastSeen]

\* heartbeat ages (ms before Base) the observed documents carry: around the
\* freshness window and around every label tier; -1000 is a clock ahead
Ages == {-1000, 0, 1, 89000, 90000, 91000, 119000, 119999, 120000, 120001, 121000, 150000,
         3599999, 3600000, 86399999, 86400000, 90000000, 172799999,
         172800000, 180000000}

LastSeenVals == {0} \cup {Base - a : a \in Ages}

NowVals == {Base + k * NowPeriod : k \in 0..MaxNowTicks}

\* the presence fields a user document can carry
PresenceDocs ==
    {EmptyDoc}
    \cup {[isOnline |-> o] : o \in BOOLEAN}
    \cup {[lastSeen |-> l] : l \in LastSeenVals}
    \cup {[isOnline |-> o, lastSeen |-> l] : o \in BOOLEAN, l \in LastSeenVals}

\* a render of the room: isOnline, then the status text
Rendered(profile, t) ==
    /\ isOnline' = isUserReallyOnline(profile, t)
    /\ statusText' = getStatusText(profile, t, isUserReallyOnline(profile, t))

RoomIdle ==
    /\ otherUser = EmptyDoc
    /\ now = 0
    /\ isOnline = FALSE
    /\ statusText = [tier |-> "Offline"]

\* the room mounts with the user document the chat list handed over
RoomInit ==
    /\ otherUser \in PresenceDocs
    /\ now = Base
    /\ isOnline = isUserReallyOnline(otherUser, now)
    /\ statusText = getStatusText(otherUser, now, isOnline)
    /\ KeyIdle
    /\ DriverIdle
    /\ StoreIdle
    /\ DeviceIdle
    /\ ChatIdle
    /\ AppIdle

\* setInterval(() => setNow(Date.now()), 30000)
NowTick ==
    /\ now + NowPeriod \in NowVals
    /\ now' = now + NowPeriod
    /\ Rendered(otherUser, now')
    /\ UNCHANGED otherUser
    /\ UNCHANGED <<keyVars, driverVars, storeVars, deviceVars, chatVars, appVars>>

\* onSnapshot(userRef, ...): setOtherUser(docSnap.data())
OnUserSnapshot ==
    /\ \E d \in PresenceDocs :
          /\ d # otherUser
          /\ otherUser' = d
          /\ Rendered(d, now)
    /\ UNCHANGED now
    /\ UNCHANGED <<keyVars, driverVars, storeVars, deviceVars, chatVars, appVars>>

RoomNext == NowTick \/ OnUserSnapshot

SpecRoom == RoomInit /\ [][RoomNext]_vars

-----------------------------------------------------------------------------
(* Chat-session addressing: ChatList calls getChatId, sendMessage splits it *)

KeyInit ==
    /\ uid1 \in Ids
    /\ uid2 \in Ids
    /\ chatId = <<>>
    /\ participants = <<>>
    /\ keyPc = "ids"
    /\ RoomIdle
    /\ DriverIdle
    /\ StoreIdle
    /\ DeviceIdle
    /\ ChatIdle
    /\ AppIdle

\* startChat / chat list: onSelectChat(other, getChatId(currentUser.uid, other.uid))
StartChat ==
    /\ keyPc = "ids"
    /\ chatId' = getChatId(uid1, uid2)
    /\ keyPc' = "keyed"
    /\ UNCHANGED <<uid1, uid2, participants>>
    /\ UNCHANGED <<roomVars, driverVars, storeVars, deviceVars, chatVars, appVars>>

\* sendMessage: the chat document's participants: chatId.split('_')
SendMessage ==
    /\ keyPc = "keyed"
    /\ participants' = participantsFromKey(chatId)
    /\ keyPc' = "sent"
    /\ UNCHANGED <<uid1, uid2, chatId>>
    /\ UNCHANGED <<roomVars, driverVars, storeVars, deviceVars, chatVars, appVars>>

KeyNext == StartChat \/ SendMessage

SpecKey == KeyInit /\ [][KeyNext]_vars

-----------------------------------------------------------------------------
(* Presence lifecycle driver: the presence effect of App, useEffect(.., [user]) *)

\* the heartbeat's setInterval period, ms
HeartbeatPeriod == 30000

\* the clock advances in halves of the heartbeat period
TimeStep == HeartbeatPeriod \div 2

MaxClock == Base + MaxClockSteps * TimeStep

\* one updateDoc(userRef, fields) call: the effect run that made it, the
\* document it targets, the fields, when and from which handler
\* faulty variant: the reference is built from the other account's uid
WriteToPeer(inst, fields, via) ==
    [gen |-> inst.gen, uid |-> CHOOSE u \in Users : u # inst.uid,
     fields |-> fields, at |-> clock, via |-> via, caught |-> FALSE]

Write(inst, fields, via) ==
    [gen |-> inst.gen, uid |-> inst.uid, fields |-> fields,
     at |-> clock, via |-> via, caught |-> FALSE]

\* promise.catch(e => console.error(..)): a rejection is logged and dropped
Caught(w) == [w EXCEPT !.caught = TRUE]

\* faulty variant: setOnline without the .catch
SetOnlineNoCatch(inst, via) ==
    Write(inst, [isOnline |-> TRUE, lastSeen |-> clock], via)

\* setOnline(): updateDoc(userRef, {isOnline: true, lastSeen: Date.now()})
setOnline(inst, via) ==
    Caught(Write(inst, [isOnline |-> TRUE, lastSeen |-> clock], via))

\* faulty variant: setOffline refreshes lastSeen and leaves the flag alone
SetOfflineKeepsFlag(inst, via) ==
    Caught(Write(inst, [lastSeen |-> clock], via))

\* setOffline(): updateDoc(userRef, {isOnline: false, lastSeen: Date.now()})
setOffline(inst, via) ==
    Caught(Write(inst, [isOnline |-> FALSE, lastSeen |-> clock], via))

\* faulty variant: the mount write is made only while the document is visible
EffectStartOnlineIfVisible(inst) ==
    [issued |-> IF visibility = "visible"
                THEN <<setOnline(inst, "mount")>> ELSE <<>>,
     listeners |-> {inst},
     timers |-> {[gen |-> inst.gen, uid |-> inst.uid,
                  due |-> clock + HeartbeatPeriod]}]

\* the effect body for a signed-in user: setOnline(), addEventListener x 2,
\* setInterval
EffectStart(inst) ==
    [issued |-> <<setOnline(inst, "mount")>>,
     listeners |-> {inst},
     timers |-> {[gen |-> inst.gen, uid |-> inst.uid,
                  due |-> clock + HeartbeatPeriod]}]

\* faulty variant: the cleanup forgets clearInterval
EffectCleanupKeepsTimer(inst) ==
    [issued |-> <<setOffline(inst, "teardown")>>,
     listeners |-> listeners \ {inst},
     timers |-> timers]

\* the effect's cleanup: removeEventListener x 2, clearInterval, setOffline()
EffectCleanup(inst) ==
    [issued |-> <<setOffline(inst, "teardown")>>,
     listeners |-> listeners \ {inst},
     timers |-> {tm \in timers : tm.gen # inst.gen}]

\* faulty variant: the handler tests the visibility it had before the change
HandleVisibilityChangeStale(inst, vis) ==
    IF vis = "visible" THEN setOffline(inst, "visibility")
    ELSE setOnline(inst, "visibility")

\* faulty variant: regaining visibility only refreshes lastSeen
HandleVisibilityChangeLastSeenOnly(inst, vis) ==
    IF vis = "visible"
    THEN Caught(Write(inst, [lastSeen |-> clock], "visibility"))
    ELSE setOffline(inst, "visibility")

\* handleVisibilityChange, run with document.visibilityState = vis
handleVisibilityChange(inst, vis) ==
    IF vis = "visible" THEN setOnline(inst, "visibility")
    ELSE setOffline(inst, "visibility")

\* handleBeforeUnload
handleBeforeUnload(inst) == setOffline(inst, "unload")

\* faulty variant: the visibility test of the heartbeat is inverted
HeartbeatWhenHidden(tm, vis) ==
    IF vis = "hidden"
    THEN <<Write(tm, [lastSeen |-> clock], "heartbeat")>>
    ELSE <<>>

\* faulty variant: the heartbeat writes whatever the visibility is
HeartbeatAlways(tm, vis) ==
    <<Write(tm, [lastSeen |-> clock], "heartbeat")>>

\* faulty variant: the heartbeat re-asserts the online flag
HeartbeatSetsOnline(tm, vis) ==
    IF vis = "visible"
    THEN <<Write(tm, [isOnline |-> TRUE, lastSeen |-> clock], "heartbeat")>>
    ELSE <<>>

\* the interval callback: if visible, updateDoc(userRef, {lastSeen: Date.now()})
Heartbeat(tm, vis) ==
    IF vis = "visible"
    THEN <<Write(tm, [lastSeen |-> clock], "heartbeat")>>
    ELSE <<>>

\* the instances of a set in the order their effects ran
RECURSIVE InOrder(_)
InOrder(S) ==
    IF S = {} THEN <<>>
    ELSE LET first == CHOOSE x \in S : \A y \in S : x.gen <= y.gen
         IN  <<first>> \o InOrder(S \ {first})

\* the updateDoc calls of a step join the log, each one pending; a run is
\* followed while its log holds no more than max writes
Issue(ws, max) ==
    /\ Len(writes) + Len(ws) <= max
    /\ writes' = writes \o ws
    /\ status' = status \o [i \in 1..Len(ws) |-> "pending"]

DriverInit ==
    /\ user = NoUser
    /\ visibility \in {"visible", "hidden"}
    /\ page = "open"
    /\ clock = Base
    /\ gen = 0
    /\ mounted = {}
    /\ listeners = {}
    /\ timers = {}
    /\ writes = <<>>
    /\ status = <<>>
    /\ db = [u \in Users |-> EmptyDoc]
    /\ KeyIdle
    /\ RoomIdle
    /\ StoreIdle
    /\ DeviceIdle
    /\ ChatIdle
    /\ AppIdle

\* onAuthStateChanged callback: setUser(authUser); on the commit React runs
\* the cleanup of the previous run of the presence effect, then the effect
\* again, which returns at once when there is no user
AuthStateChangedWithin(u, max) ==
    /\ page = "open"
    /\ u # user
    /\ u # NoUser => gen < MaxGen
    /\ LET inst == [gen |-> gen + 1, uid |-> u]
           olds == InOrder(mounted)
           torn == [i \in 1..Len(olds) |-> EffectCleanup(olds[i])]
           left == [listeners |-> listeners \ mounted,
                    timers |-> {tm \in timers :
                                  \A i \in 1..Len(torn) : tm \in torn[i].timers}]
           offs == IF olds = <<>> THEN <<>> ELSE torn[1].issued
           start == EffectStart(inst)
       IN  /\ user' = u
           /\ IF u = NoUser
              THEN /\ Issue(offs, max)
                   /\ listeners' = {l \in left.listeners :
                                      \A i \in 1..Len(torn) : l \in torn[i].listeners}
                   /\ timers' = left.timers
                   /\ mounted' = {}
                   /\ gen' = gen
              ELSE /\ Issue(offs \o start.issued, max)
                   /\ listeners' = {l \in left.listeners :
                                      \A i \in 1..Len(torn) : l \in torn[i].listeners}
                                   \cup start.listeners
                   /\ timers' = left.timers \cup start.timers
                   /\ mounted' = {inst}
                   /\ gen' = gen + 1
    /\ UNCHANGED <<visibility, page, clock, db>>
    /\ UNCHANGED <<keyVars, roomVars, storeVars, deviceVars, chatVars, appVars>>

\* the browser flips document.visibilityState and dispatches visibilitychange
VisibilityChangeWithin(max) ==
    /\ page = "open"
    /\ visibility' = IF visibility = "visible" THEN "hidden" ELSE "visible"
    /\ LET hs == InOrder(listeners)
       IN  Issue([i \in 1..Len(hs) |-> handleVisibilityChange(hs[i], visibility')],
                 max)
    /\ UNCHANGED <<user, page, clock, gen, mounted, listeners, timers, db>>
    /\ UNCHANGED <<keyVars, roomVars, storeVars, deviceVars, chatVars, appVars>>

\* the browser dispatches beforeunload; the window then unloads, or stays
\* open when the navigation is cancelled
BeforeUnloadWithin(stays, max) ==
    /\ page = "open"
    /\ LET hs == InOrder(listeners)
       IN  Issue([i \in 1..Len(hs) |-> handleBeforeUnload(hs[i])], max)
    /\ page' = IF stays THEN "open" ELSE "closed"
    /\ UNCHANGED <<user, visibility, clock, gen, mounted, listeners, timers, db>>
    /\ UNCHANGED <<keyVars, roomVars, storeVars, deviceVars, chatVars, appVars>>

\* a heartbeat interval fires
HeartbeatTickWithin(tm, max) ==
    /\ page = "open"
    /\ clock >= tm.due
    /\ Issue(Heartbeat(tm, visibility), max)
    /\ timers' = (timers \ {tm}) \cup {[tm EXCEPT !.due = clock + HeartbeatPeriod]}
    /\ UNCHANGED <<user, visibility, page, clock, gen, mounted, listeners, db>>
    /\ UNCHANGED <<keyVars, roomVars, storeVars, deviceVars, chatVars, appVars>>

\* time passes
Advance ==
    /\ clock + TimeStep <= MaxClock
    /\ clock' = clock + TimeStep
    /\ UNCHANGED <<user, visibility, page, gen, mounted, listeners, timers,
                   writes, status, db>>
    /\ UNCHANGED <<keyVars, roomVars, storeVars, deviceVars, chatVars, appVars>>

\* faulty variant: a write issued before one the store already applied to
\* the same document resolves without changing the document
ApplyWriteNewestWins(i) ==
    /\ status[i] = "pending"
    /\ db' = IF \E j \in DOMAIN writes :
                   j > i /\ status[j] = "applied" /\ writes[j].uid = writes[i].uid
             THEN db
             ELSE [db EXCEPT ![writes[i].uid] = Merge(@, writes[i].fields)]
    /\ status' = [status EXCEPT ![i] = "applied"]
    /\ UNCHANGED <<user, visibility, page, clock, gen, mounted, listeners,
                   timers, writes>>
    /\ UNCHANGED <<keyVars, roomVars, storeVars, deviceVars, chatVars, appVars>>

\* the store applies a pending updateDoc: the promise resolves
ApplyWrite(i) ==
    /\ status[i] = "pending"
    /\ db' = [db EXCEPT ![writes[i].uid] = Merge(@, writes[i].fields)]
    /\ status' = [status EXCEPT ![i] = "applied"]
    /\ UNCHANGED <<user, visibility, page, clock, gen, mounted, listeners,
                   timers, writes>>
    /\ UNCHANGED <<keyVars, roomVars, storeVars, deviceVars, chatVars, appVars>>

AuthStateChanged(u) == AuthStateChangedWithin(u, MaxWrites)

VisibilityChange == VisibilityChangeWithin(MaxWrites)

BeforeUnload(stays) == BeforeUnloadWithin(stays, MaxWrites)

HeartbeatTick(tm) == HeartbeatTickWithin(tm, MaxWrites)

\* what becomes of a rejected updateDoc promise: console.error in its
\* .catch, or an unhandled promise rejection when it has none
Rejected(w) == IF w.caught THEN "logged" ELSE "unhandled"

\* the store rejects a pending updateDoc
FailWrite(i) ==
    /\ status[i] = "pending"
    /\ status' = [status EXCEPT ![i] = Rejected(writes[i])]
    /\ UNCHANGED <<user, visibility, page, clock, gen, mounted, listeners,
                   timers, writes, db>>
    /\ UNCHANGED <<keyVars, roomVars, storeVars, deviceVars, chatVars, appVars>>

DriverNext ==
    \/ \E u \in Users \cup {NoUser} : AuthStateChanged(u)
    \/ VisibilityChange
    \/ \E stays \in BOOLEAN : BeforeUnload(stays)
    \/ \E tm \in timers : HeartbeatTick(tm)
    \/ Advance
    \/ \E i \in DOMAIN writes : ApplyWrite(i)
    \/ \E i \in DOMAIN writes : FailWrite(i)

SpecDriver == DriverInit /\ [][DriverNext]_vars

-----------------------------------------------------------------------------
(* The whole client: the driver together with the other operations that    *)
(* write to the store (Settings, Auth registration, sendMessage).  The     *)
(* texts and timestamps these operations store play no part in presence    *)
(* and are left out of their documents; the store applies every write.     *)

\* the uid of an account as code units: "u1", "u2"
UidUnits(u) == IF u = "u1" THEN <<117, 49>> ELSE <<117, 50>>

\* Settings.handleSave: the fields updateDoc merges into the own document
ProfileEdit ==
    [displayName |-> "edited", username |-> "@edited", photoURL |-> ""]

\* Auth.handleSubmit: the UserProfile that registration stores
NewUser(u) ==
    [uid |-> u, email |-> "mail", username |-> "@new", displayName |-> "new",
     photoURL |-> "avatar"]

\* Settings.handleSave: updateDoc(doc(db, 'users', currentUser.uid), {...})
SaveProfile ==
    /\ page = "open"
    /\ user # NoUser
    /\ db' = [db EXCEPT ![user] = Merge(@, ProfileEdit)]
    /\ UNCHANGED <<user, visibility, page, clock, gen, mounted, listeners,
                   timers, writes, status>>
    /\ UNCHANGED <<keyVars, roomVars, storeVars, deviceVars, chatVars, appVars>>

\* registration, after the new account is signed in: createUserProfile does
\* setDoc(doc(db, 'users', user.uid), user), which replaces the document
CreateUserProfile ==
    /\ page = "open"
    /\ user # NoUser
    /\ ~Has(db[user], "uid")
    /\ db' = [db EXCEPT ![user] = NewUser(user)]
    /\ UNCHANGED <<user, visibility, page, clock, gen, mounted, listeners,
                   timers, writes, status>>
    /\ UNCHANGED <<keyVars, roomVars, storeVars, deviceVars, chatVars, appVars>>

\* sendMessage(chatId, text, sender) from the chat with other: addDoc to
\* messages, then setDoc of the chat document with merge
SendChatMessage(other) ==
    /\ page = "open"
    /\ user # NoUser
    /\ other # user
    /\ Len(messages) < MaxMessages
    /\ LET cid == getChatId(UidUnits(user), UidUnits(other))
       IN  /\ messages' = Append(messages,
                                 [chatId |-> cid, senderId |-> user])
           /\ chats' = {c \in chats : c.chatId # cid}
                        \cup {[chatId |-> cid,
                               participants |-> participantsFromKey(cid)]}
    /\ UNCHANGED <<keyVars, roomVars, driverVars, deviceVars, chatVars, appVars>>

AccountNext ==
    \/ \E u \in Users \cup {NoUser} : AuthStateChangedWithin(u, MaxAccountWrites)
    \/ VisibilityChangeWithin(MaxAccountWrites)
    \/ \E stays \in BOOLEAN : BeforeUnloadWithin(stays, MaxAccountWrites)
    \/ \E tm \in timers : HeartbeatTickWithin(tm, MaxAccountWrites)
    \/ Advance
    \/ \E i \in DOMAIN writes : ApplyWrite(i)
    \/ SaveProfile
    \/ CreateUserProfile
    \/ \E other \in Users : SendChatMessage(other)

SpecAccount == DriverInit /\ [][AccountNext]_vars

-----------------------------------------------------------------------------
(* The driver on a time line: one sign-in, intervals that fire on time *)

\* the time line is followed in steps of 5 s
FineStep == HeartbeatPeriod \div 6

MaxScenarioClock == Base + MaxBeats * HeartbeatPeriod

\* the user signs in and the presence effect starts: t = 0 of the time line
SignIn(u) ==
    /\ user = NoUser
    /\ clock = Base
    /\ AuthStateChangedWithin(u, MaxScenarioWrites)

\* time passes, but never past an interval that is due
AdvanceOnTime ==
    /\ clock + FineStep <= MaxScenarioClock
    /\ \A tm \in timers : clock < tm.due
    /\ clock' = clock + FineStep
    /\ UNCHANGED <<user, visibility, page, gen, mounted, listeners, timers,
                   writes, status, db>>
    /\ UNCHANGED <<keyVars, roomVars, storeVars, deviceVars, chatVars, appVars>>

ScenarioNext ==
    \/ \E u \in Users : SignIn(u)
    \/ VisibilityChangeWithin(MaxScenarioWrites)
    \/ \E tm \in timers : HeartbeatTickWithin(tm, MaxScenarioWrites)
    \/ AdvanceOnTime

SpecScenario == DriverInit /\ [][ScenarioNext]_vars

-----------------------------------------------------------------------------
(* A client and a chat room observing it, on one time line: the client's   *)
(* writes reach the store and the observer within the step they are made   *)
(* in, and both intervals fire on time.                                    *)

\* the account whose presence the room shows
Observed == "u1"

MaxLiveClock == Base + MaxLiveSteps * TimeStep

\* the store applies the updateDoc calls of a step, in issue order
RECURSIVE ApplyAll(_, _)
ApplyAll(ws, store) ==
    IF ws = <<>> THEN store
    ELSE ApplyAll(Tail(ws),
                  [store EXCEPT ![Head(ws).uid] = Merge(@, Head(ws).fields)])

\* the chat room is mounted
RoomMounted == now # 0

\* the observed user signs in: the presence effect starts, at t = 0
LiveSignIn ==
    /\ page = "open"
    /\ user = NoUser
    /\ clock = Base
    /\ LET inst == [gen |-> gen + 1, uid |-> Observed]
           start == EffectStart(inst)
       IN  /\ user' = Observed
           /\ gen' = gen + 1
           /\ mounted' = {inst}
           /\ listeners' = start.listeners
           /\ timers' = start.timers
           /\ db' = ApplyAll(start.issued, db)
    /\ UNCHANGED <<visibility, page, clock, writes, status>>
    /\ UNCHANGED <<keyVars, roomVars, storeVars, deviceVars, chatVars, appVars>>

\* visibilitychange in the observed client
LiveVisibilityChange ==
    /\ page = "open"
    /\ visibility' = IF visibility = "visible" THEN "hidden" ELSE "visible"
    /\ LET hs == InOrder(listeners)
       IN  db' = ApplyAll([i \in 1..Len(hs) |->
                             handleVisibilityChange(hs[i], visibility')], db)
    /\ UNCHANGED <<user, page, clock, gen, mounted, listeners, timers,
                   writes, status>>
    /\ UNCHANGED <<keyVars, roomVars, storeVars, deviceVars, chatVars, appVars>>

\* the heartbeat interval of the observed client fires
LiveHeartbeat(tm) ==
    /\ page = "open"
    /\ clock >= tm.due
    /\ db' = ApplyAll(Heartbeat(tm, visibility), db)
    /\ timers' = (timers \ {tm}) \cup {[tm EXCEPT !.due = clock + HeartbeatPeriod]}
    /\ UNCHANGED <<user, visibility, page, clock, gen, mounted, listeners,
                   writes, status>>
    /\ UNCHANGED <<keyVars, roomVars, storeVars, deviceVars, chatVars, appVars>>

\* the observed client dies: no handler runs, no interval fires any more
Crash ==
    /\ page = "open"
    /\ user # NoUser
    /\ page' = "closed"
    /\ UNCHANGED <<user, visibility, clock, gen, mounted, listeners, timers,
                   writes, status, db>>
    /\ UNCHANGED <<keyVars, roomVars, storeVars, deviceVars, chatVars, appVars>>

\* the chat room mounts: useState(Date.now()), the observed document
RoomMount ==
    /\ ~RoomMounted
    /\ now' = clock
    /\ otherUser' = db[Observed]
    /\ Rendered(otherUser', now')
    /\ UNCHANGED <<keyVars, driverVars, storeVars, deviceVars, chatVars, appVars>>

\* onSnapshot(userRef, ...): setOtherUser(docSnap.data())
LiveSnapshot ==
    /\ RoomMounted
    /\ otherUser # db[Observed]
    /\ otherUser' = db[Observed]
    /\ Rendered(otherUser', now)
    /\ UNCHANGED now
    /\ UNCHANGED <<keyVars, driverVars, storeVars, deviceVars, chatVars, appVars>>

\* setInterval(() => setNow(Date.now()), 30000) of the room
LiveNowTick ==
    /\ RoomMounted
    /\ clock >= now + NowPeriod
    /\ now' = clock
    /\ Rendered(otherUser, now')
    /\ UNCHANGED otherUser
    /\ UNCHANGED <<keyVars, driverVars, storeVars, deviceVars, chatVars, appVars>>

\* time passes, once what is due has run and the snapshot is delivered
AdvanceLive ==
    /\ clock + TimeStep <= MaxLiveClock
    /\ page = "open" => \A tm \in timers : clock < tm.due
    /\ RoomMounted => clock < now + NowPeriod /\ otherUser = db[Observed]
    /\ second.user # NoUser => clock < second.due
    /\ clock' = clock + TimeStep
    /\ UNCHANGED <<user, visibility, page, gen, mounted, listeners, timers,
                   writes, status, db>>
    /\ UNCHANGED <<keyVars, roomVars, storeVars, deviceVars, chatVars, appVars>>

LiveNext ==
    \/ LiveSignIn
    \/ LiveVisibilityChange
    \/ \E tm \in timers : LiveHeartbeat(tm)
    \/ Crash
    \/ RoomMount
    \/ LiveSnapshot
    \/ LiveNowTick
    \/ AdvanceLive

SpecLive == DriverInit /\ [][LiveNext]_vars

-----------------------------------------------------------------------------
(* Two devices signed in to the same account, and a chat room observing    *)
(* that account, on one time line                                          *)

\* the presence effect run of the second device
SecondInst == [gen |-> 0, uid |-> Observed]

\* the account signs in on the second device: its presence effect starts
SecondSignIn ==
    /\ second.user = NoUser
    /\ LET start == EffectStart(SecondInst)
       IN  /\ second' = [second EXCEPT
                           !.user = Observed,
                           !.due = (CHOOSE tm \in start.timers : TRUE).due]
           /\ db' = ApplyAll(start.issued, db)
    /\ UNCHANGED <<user, visibility, page, clock, gen, mounted, listeners,
                   timers, writes, status>>
    /\ UNCHANGED <<keyVars, roomVars, storeVars, chatVars, appVars>>

\* visibilitychange on the second device
SecondVisibilityChange ==
    /\ LET vis == IF second.visibility = "visible" THEN "hidden" ELSE "visible"
       IN  /\ second' = [second EXCEPT !.visibility = vis]
           /\ db' = IF second.user = NoUser THEN db
                    ELSE ApplyAll(<<handleVisibilityChange(SecondInst, vis)>>, db)
    /\ UNCHANGED <<user, visibility, page, clock, gen, mounted, listeners,
                   timers, writes, status>>
    /\ UNCHANGED <<keyVars, roomVars, storeVars, chatVars, appVars>>

\* the heartbeat interval of the second device fires
SecondHeartbeat ==
    /\ second.user # NoUser
    /\ clock >= second.due
    /\ second' = [second EXCEPT !.due = clock + HeartbeatPeriod]
    /\ db' = ApplyAll(Heartbeat(SecondInst, second.visibility), db)
    /\ UNCHANGED <<user, visibility, page, clock, gen, mounted, listeners,
                   timers, writes, status>>
    /\ UNCHANGED <<keyVars, roomVars, storeVars, chatVars, appVars>>

\* sign-out on the second device: the cleanup of its presence effect
SecondSignOut ==
    /\ second.user # NoUser
    /\ second' = [second EXCEPT !.user = NoUser, !.due = 0]
    /\ db' = ApplyAll(EffectCleanup(SecondInst).issued, db)
    /\ UNCHANGED <<user, visibility, page, clock, gen, mounted, listeners,
                   timers, writes, status>>
    /\ UNCHANGED <<keyVars, roomVars, storeVars, chatVars, appVars>>

DevicesNext ==
    \/ LiveSignIn
    \/ LiveVisibilityChange
    \/ \E tm \in timers : LiveHeartbeat(tm)
    \/ SecondSignIn
    \/ SecondVisibilityChange
    \/ SecondHeartbeat
    \/ SecondSignOut
    \/ RoomMount
    \/ LiveSnapshot
    \/ LiveNowTick
    \/ AdvanceLive

SpecDevices == DriverInit /\ [][DevicesNext]_vars

-----------------------------------------------------------------------------
(* Messaging: the chat rooms of the two participants of one chat, the      *)
(* sendMessage calls they start and the message snapshots they receive.    *)
(* The lastMessage fields of the chat document are left out.               *)

\* limit(100) of the messages query
QueryLimit == 100

\* ' ', the white space of the input texts
Space == 32

\* what a participant can have typed: nothing, a blank, "h"
Texts == {<<>>, <<Space>>, <<104>>}

\* String.prototype.trim
RECURSIVE TrimStart(_)
TrimStart(t) ==
    IF t # <<>> /\ Head(t) = Space THEN TrimStart(Tail(t)) ELSE t

RECURSIVE TrimEnd(_)
TrimEnd(t) ==
    IF t # <<>> /\ t[Len(t)] = Space THEN TrimEnd(SubSeq(t, 1, Len(t) - 1)) ELSE t

Trim(t) == TrimEnd(TrimStart(t))

\* the chat of the two participants, and a chat of u1 with a third account
RoomChatId == getChatId(UidUnits("u1"), UidUnits("u2"))

OtherChatId == getChatId(UidUnits("u1"), <<117, 51>>)

\* the message document addDoc stores, with the id the store gives it
MessageDoc(id, cid, sender, text, at) ==
    [id |-> id, chatId |-> cid, senderId |-> sender, text |-> text,
     createdAt |-> at]

\* the chat document setDoc merges
ChatDoc(cid) == [chatId |-> cid, participants |-> participantsFromKey(cid)]

\* a chat that already holds QueryLimit messages, the newest stored first
Backlog ==
    [i \in 1..QueryLimit |->
        MessageDoc(i, RoomChatId, "u2", <<104>>, Base - i)]

\* faulty variant: the chat document is written before the message
SendStagesChatFirst == <<"setDoc", "addDoc">>

\* the awaited writes of sendMessage, in order
SendStages == <<"addDoc", "setDoc">>

\* faulty variant: handleSend does not look at isSending
CanSendWhileSending(room) == Trim(room.inputText) # <<>>

\* handleSend goes on past: if (!inputText.trim() || isSending) return
CanSend(room) == Trim(room.inputText) # <<>> /\ ~room.isSending

\* faulty variant: the list is shown in the order of the snapshot
Unsorted(docs) == docs

\* msgs.sort((a, b) => a.createdAt - b.createdAt): a stable sort, every
\* document placed by the number of documents that go before it
SortByCreatedAt(docs) ==
    LET n == Len(docs)
        placed == {<<1 + Cardinality({k \in 1..n :
                          \/ docs[k].createdAt < docs[j].createdAt
                          \/ docs[k].createdAt = docs[j].createdAt /\ k < j}),
                     j>> : j \in 1..n}
    IN  [r \in 1..n |-> docs[(CHOOSE p \in placed : p[1] = r)[2]]]

\* the documents of seq that belong to chat cid, in the order of seq
Filter(seq, cid) == SelectSeq(seq, LAMBDA d : d.chatId = cid)

Reverse(seq) == [i \in 1..Len(seq) |-> seq[Len(seq) + 1 - i]]

\* every order of a short sequence
Orders(seq) ==
    {[i \in 1..Len(seq) |-> seq[f[i]]] :
        f \in {g \in [1..Len(seq) -> 1..Len(seq)] :
                 \A a, b \in 1..Len(seq) : a # b => g[a] # g[b]}}

\* the snapshots the store can deliver for where('chatId', '==', cid),
\* limit(QueryLimit): the matching documents, QueryLimit of them when there
\* are more (the first or the last stored), in any order (for more than
\* MaxLen documents: as stored or reversed)
Snapshots(cid) ==
    LET all == Filter(messages, cid)
        n == Len(all)
        picked == IF n <= QueryLimit THEN {all}
                  ELSE {SubSeq(all, 1, QueryLimit),
                        SubSeq(all, n - QueryLimit + 1, n)}
    IN  UNION {IF Len(docs) <= MaxLen THEN Orders(docs)
               ELSE {docs, Reverse(docs)} : docs \in picked}

\* the calls in flight that the room of p started
CallsOf(p) == {i \in DOMAIN calls : calls[i].room = p}

\* seq without its i-th element
Without(seq, i) == SubSeq(seq, 1, i - 1) \o SubSeq(seq, i + 1, Len(seq))

\* how many messages the run has added to the store
Added == Cardinality({i \in DOMAIN messages : messages[i].createdAt >= Base})

\* nobody's presence is driven; the rooms' Date.now() reads Base
ClientsIdle ==
    /\ user = NoUser
    /\ visibility = "visible"
    /\ page = "open"
    /\ clock = Base
    /\ gen = 0
    /\ mounted = {}
    /\ listeners = {}
    /\ timers = {}
    /\ writes = <<>>
    /\ status = <<>>
    /\ db = [u \in Users |-> EmptyDoc]

\* the rooms are open on a chat that is new, or holds QueryLimit messages
ListInit ==
    /\ messages \in {<<>>, Backlog}
    /\ chats = IF messages = <<>> THEN {} ELSE {ChatDoc(RoomChatId)}
    /\ ChatIdle
    /\ AppIdle
    /\ KeyIdle
    /\ RoomIdle
    /\ ClientsIdle
    /\ DeviceIdle

\* onChange of the input: setInputText(e.target.value)
TypeText(p, t) ==
    /\ rooms[p].inputText # t
    /\ rooms' = [rooms EXCEPT ![p].inputText = t]
    /\ UNCHANGED calls
    /\ UNCHANGED <<keyVars, roomVars, driverVars, storeVars, deviceVars, appVars>>

\* handleSend (form submit, or Enter through handleKeyDown) up to its await:
\* setInputText(''), setIsSending(true), sendMessage(chatId, text, currentUser)
\* which builds the message with createdAt: Date.now() and starts addDoc
HandleSend(p) ==
    /\ CanSend(rooms[p])
    /\ Added + Len(calls) < MaxSends
    /\ rooms' = [rooms EXCEPT ![p].inputText = <<>>, ![p].isSending = TRUE]
    /\ calls' = Append(calls, [room |-> p, text |-> rooms[p].inputText,
                               at |-> clock, step |-> 1])
    /\ UNCHANGED <<keyVars, roomVars, driverVars, storeVars, deviceVars, appVars>>

\* the write of one stage of sendMessage, applied to the store
StageWrite(c) ==
    IF SendStages[c.step] = "addDoc"
    THEN /\ messages' = Append(messages,
                               MessageDoc(Len(messages) + 1, RoomChatId,
                                          c.room, c.text, c.at))
         /\ UNCHANGED chats
    ELSE /\ chats' = {d \in chats : d.chatId # RoomChatId}
                     \cup {ChatDoc(RoomChatId)}
         /\ UNCHANGED messages

\* the write a call awaits resolves: sendMessage goes on to its next write,
\* or returns, and handleSend's finally runs setIsSending(false)
WriteResolves(i) ==
    /\ StageWrite(calls[i])
    /\ IF calls[i].step < Len(SendStages)
       THEN /\ calls' = [calls EXCEPT ![i].step = @ + 1]
            /\ UNCHANGED rooms
       ELSE /\ calls' = Without(calls, i)
            /\ rooms' = [rooms EXCEPT ![calls[i].room].isSending = FALSE]
    /\ UNCHANGED <<keyVars, roomVars, driverVars, deviceVars, appVars>>

\* the write a call awaits rejects: sendMessage throws, handleSend's catch
\* runs setInputText(text) and its finally setIsSending(false)
WriteRejects(i) ==
    /\ calls' = Without(calls, i)
    /\ rooms' = [rooms EXCEPT ![calls[i].room].inputText = calls[i].text,
                              ![calls[i].room].isSending = FALSE]
    /\ UNCHANGED <<keyVars, roomVars, driverVars, storeVars, deviceVars, appVars>>

\* the addDoc of some client's sendMessage resolves: a message of the
\* room's chat or of another chat joins the collection
MessageArrives(cid, sender) ==
    /\ Added < MaxArrivals
    /\ messages' = Append(messages,
                          MessageDoc(Len(messages) + 1, cid, sender,
                                     <<104>>, clock))
    /\ UNCHANGED chats
    /\ UNCHANGED <<keyVars, roomVars, driverVars, deviceVars, chatVars, appVars>>

\* the onSnapshot callback of the messages query in the room of p:
\* map, sort, setMessages
MessagesSnapshot(p) ==
    /\ \E docs \in Snapshots(RoomChatId) :
          rooms' = [rooms EXCEPT ![p].list = SortByCreatedAt(docs)]
    /\ UNCHANGED calls
    /\ UNCHANGED <<keyVars, roomVars, driverVars, storeVars, deviceVars, appVars>>

\* sending: both participants type and send into a new chat
SendInit ==
    /\ StoreIdle
    /\ ChatIdle
    /\ AppIdle
    /\ KeyIdle
    /\ RoomIdle
    /\ ClientsIdle
    /\ DeviceIdle

SendNext ==
    \/ \E p \in Users, t \in Texts : TypeText(p, t)
    \/ \E p \in Users : HandleSend(p)
    \/ \E i \in DOMAIN calls : WriteResolves(i)
    \/ \E i \in DOMAIN calls : WriteRejects(i)

SpecSend == SendInit /\ [][SendNext]_vars

\* listing: messages arrive in the store and the room of u1 receives
\* snapshots of its query
ListNext ==
    \/ \E cid \in {RoomChatId, OtherChatId}, sender \in Users :
          MessageArrives(cid, sender)
    \/ MessagesSnapshot("u1")
    \/ Advance

SpecList == ListInit /\ [][ListNext]_vars

-----------------------------------------------------------------------------
(* Accounts, registration and navigation *)

\* '@', which starts a handle
At == 64

\* cleanInput.length < 3 is refused
MinUsername == 3

\* password.length < 6 is refused
MinPassword == 6

\* what a user can type as a handle: "@bob", "Bob", "amy", "al"
Names == {<<At, 98, 111, 98>>, <<66, 111, 98>>, <<97, 109, 121>>, <<97, 108>>}

\* the lengths of the passwords a user can type
PasswordLengths == {MinPassword - 1, MinPassword}

\* String.prototype.toLowerCase on the letters A-Z
ToLowerCase(t) ==
    [i \in DOMAIN t |-> IF t[i] >= 65 /\ t[i] <= 90 THEN t[i] + 32 ELSE t[i]]

\* replace(/^@/, '')
StripAt(t) == IF t # <<>> /\ Head(t) = At THEN Tail(t) ELSE t

\* username.trim().replace(/^@/, '').toLowerCase()
CleanInput(t) == ToLowerCase(StripAt(Trim(t)))

\* `@${cleanInput}`
FinalUsername(t) == <<At>> \o CleanInput(t)

\* /^[a-z0-9_]+$/ on one code unit
IsHandleUnit(c) ==
    \/ c >= 97 /\ c <= 122
    \/ c >= 48 /\ c <= 57
    \/ c = 95

\* the validation of handleSubmit lets the input through
ValidInput(t, pw) ==
    /\ Len(CleanInput(t)) >= MinUsername
    /\ pw >= MinPassword
    /\ \A i \in DOMAIN CleanInput(t) : IsHandleUnit(CleanInput(t)[i])

\* checkUsernameExists: a query where('username', '==', username) is not empty
checkUsernameExists(name) ==
    \E u \in Users : Has(db[u], "username") /\ db[u].username = name

\* the UserProfile that handleSubmit builds and createUserProfile stores
NewUserProfile(u, name) ==
    [uid |-> u, email |-> "mail", username |-> name, displayName |-> "new",
     createdAt |-> clock, photoURL |-> "avatar"]

\* docSnap.data() as UserProfile, as far as the App uses it
ProfileOf(d) == [uid |-> d.uid, username |-> d.username]

\* if (!user || !userProfile) return <Auth />, once loading is over
AuthShown ==
    /\ ~app.loading
    /\ app.user = NoUser \/ app.userProfile = NoProfile

\* the views are rendered
MainShown ==
    /\ ~app.loading
    /\ app.user # NoUser
    /\ app.userProfile # NoProfile

\* the onAuthStateChanged callback up to its await: setUser(authUser), then
\* getDoc of the profile is started, or setUserProfile(null) and
\* setLoading(false)
Callback(u) ==
    IF u = NoUser
    THEN /\ app' = [app EXCEPT !.user = NoUser, !.userProfile = NoProfile,
                               !.loading = FALSE]
         /\ UNCHANGED fetches
    ELSE /\ app' = [app EXCEPT !.user = u]
         /\ fetches' = Append(fetches, [uid |-> u, from |-> "auth"])

\* the effect on [view]: if (!user) return; getDoc(users/user.uid)
ViewEffect(uid) ==
    fetches' = IF uid = NoUser THEN fetches
               ELSE Append(fetches, [uid |-> uid, from |-> "view"])

\* nothing of the presence driver moves
DriverStays ==
    UNCHANGED <<user, visibility, page, clock, gen, mounted, listeners,
                timers, writes, status>>

\* the first onAuthStateChanged callback after the App mounted, with the
\* persisted session if there is one
AppStart(u) ==
    /\ app.loading
    /\ app.user = NoUser
    /\ fetches = <<>>
    /\ Callback(u)
    /\ UNCHANGED <<accounts, regs>>
    /\ UNCHANGED <<keyVars, roomVars, driverVars, storeVars, deviceVars,
                   chatVars>>

\* Auth.handleSubmit, not registering: signInWithEmailAndPassword succeeds
\* and the auth state changes
SignInAs(u) ==
    /\ AuthShown
    /\ regs["c1"].pc \in {"idle", "done"}
    /\ Len(fetches) < MaxFetches
    /\ Callback(u)
    /\ UNCHANGED <<accounts, regs>>
    /\ UNCHANGED <<keyVars, roomVars, driverVars, storeVars, deviceVars,
                   chatVars>>

\* Auth.handleSubmit, registering, up to await checkUsernameExists: the
\* validation throws, or the query is started
RegisterSubmit(c, raw, pw) ==
    /\ regs[c].pc \in {"idle", "done"}
    /\ c = "c1" => AuthShown
    /\ regs' = [regs EXCEPT ![c] =
                   IF ValidInput(raw, pw)
                   THEN [pc |-> "checking", username |-> FinalUsername(raw),
                         uid |-> NoUser]
                   ELSE NoReg]
    /\ UNCHANGED <<accounts, app, fetches>>
    /\ UNCHANGED <<keyVars, roomVars, driverVars, storeVars, deviceVars,
                   chatVars>>

\* checkUsernameExists resolves: "already taken" is thrown, or
\* createUserWithEmailAndPassword is started
CheckResolves(c) ==
    /\ regs[c].pc = "checking"
    /\ regs' = [regs EXCEPT ![c] =
                   IF checkUsernameExists(regs[c].username) THEN NoReg
                   ELSE [@ EXCEPT !.pc = "creating"]]
    /\ UNCHANGED <<accounts, app, fetches>>
    /\ UNCHANGED <<keyVars, roomVars, driverVars, storeVars, deviceVars,
                   chatVars>>

\* createUserWithEmailAndPassword resolves: the account exists with a new
\* uid and is signed in on the client, whose App gets the auth callback;
\* updateProfile is started
AccountCreated(c) ==
    /\ regs[c].pc = "creating"
    /\ c = "c1" => Len(fetches) < MaxFetches
    /\ \E u \in Users \ accounts :
          /\ accounts' = accounts \cup {u}
          /\ regs' = [regs EXCEPT ![c].pc = "updating", ![c].uid = u]
          /\ IF c = "c1" THEN Callback(u) ELSE UNCHANGED <<app, fetches>>
    /\ UNCHANGED <<keyVars, roomVars, driverVars, storeVars, deviceVars,
                   chatVars>>

\* updateProfile resolves: newUser is built and createUserProfile started
ProfileUpdated(c) ==
    /\ regs[c].pc = "updating"
    /\ regs' = [regs EXCEPT ![c].pc = "writing"]
    /\ UNCHANGED <<accounts, app, fetches>>
    /\ UNCHANGED <<keyVars, roomVars, driverVars, storeVars, deviceVars,
                   chatVars>>

\* createUserProfile resolves: setDoc(doc(db, 'users', user.uid), user) has
\* replaced the document, and handleSubmit is through
ProfileWritten(c) ==
    /\ regs[c].pc = "writing"
    /\ db' = [db EXCEPT ![regs[c].uid] =
                 NewUserProfile(regs[c].uid, regs[c].username)]
    /\ regs' = [regs EXCEPT ![c].pc = "done"]
    /\ DriverStays
    /\ UNCHANGED <<accounts, app, fetches>>
    /\ UNCHANGED <<keyVars, roomVars, storeVars, deviceVars, chatVars>>

\* a getDoc of the App resolves: if the document exists its data becomes
\* userProfile, otherwise nothing is set; the auth callback goes on to
\* setLoading(false)
FetchResolves(i) ==
    LET f == fetches[i]
    IN  /\ app' = [app EXCEPT
                     !.userProfile = IF db[f.uid] # EmptyDoc
                                     THEN ProfileOf(db[f.uid]) ELSE @,
                     !.loading = IF f.from = "auth" THEN FALSE ELSE @]
        /\ fetches' = Without(fetches, i)
        /\ UNCHANGED <<accounts, regs>>
        /\ UNCHANGED <<keyVars, roomVars, driverVars, storeVars, deviceVars,
                       chatVars>>

\* Settings.handleLogout: auth.signOut(), and the auth callback with null
Logout ==
    /\ MainShown
    /\ app.view = "settings"
    /\ Callback(NoUser)
    /\ UNCHANGED <<accounts, regs>>
    /\ UNCHANGED <<keyVars, roomVars, driverVars, storeVars, deviceVars,
                   chatVars>>

\* a button of the bottom navigation: setView(v), and the effect on [view]
SetView(v) ==
    /\ MainShown
    /\ app.view # "active_chat"
    /\ v # app.view
    /\ Len(fetches) < MaxFetches
    /\ app' = [app EXCEPT !.view = v]
    /\ ViewEffect(app.user)
    /\ UNCHANGED <<accounts, regs>>
    /\ UNCHANGED <<keyVars, roomVars, driverVars, storeVars, deviceVars,
                   chatVars>>

\* ChatList.startChat(otherUser) with a search result, a suggestion or a
\* chat of the list, none of which is the current user: onSelectChat does
\* setActiveChat({otherUser, chatId}) and setView('active_chat')
SelectChat(other) ==
    /\ MainShown
    /\ app.view = "chats"
    /\ db[other] # EmptyDoc
    /\ other # app.userProfile.uid
    /\ Len(fetches) < MaxFetches
    /\ app' = [app EXCEPT
                 !.activeChat =
                     [otherUser |-> other,
                      chatId |-> getChatId(UidUnits(app.userProfile.uid),
                                           UidUnits(other))],
                 !.view = "active_chat"]
    /\ ViewEffect(app.user)
    /\ UNCHANGED <<accounts, regs>>
    /\ UNCHANGED <<keyVars, roomVars, driverVars, storeVars, deviceVars,
                   chatVars>>

\* ChatRoom onBack: setView('chats'), setActiveChat(null)
Back ==
    /\ MainShown
    /\ app.view = "active_chat"
    /\ app.activeChat # NoChat
    /\ Len(fetches) < MaxFetches
    /\ app' = [app EXCEPT !.view = "chats", !.activeChat = NoChat]
    /\ ViewEffect(app.user)
    /\ UNCHANGED <<accounts, regs>>
    /\ UNCHANGED <<keyVars, roomVars, driverVars, storeVars, deviceVars,
                   chatVars>>

\* Settings.handleSave with a typed handle: updateDoc of the document of
\* currentUser.uid, which is refused when the document does not exist
SettingsSave(name) ==
    /\ MainShown
    /\ app.view = "settings"
    /\ db[app.userProfile.uid] # EmptyDoc
    /\ db' = [db EXCEPT ![app.userProfile.uid] =
                 Merge(@, [displayName |-> "edited", username |-> name,
                           photoURL |-> ""])]
    /\ DriverStays
    /\ UNCHANGED appVars
    /\ UNCHANGED <<keyVars, roomVars, storeVars, deviceVars, chatVars>>

AppInit ==
    /\ AppIdle
    /\ StoreIdle
    /\ ChatIdle
    /\ KeyIdle
    /\ RoomIdle
    /\ DriverIdle
    /\ DeviceIdle

AppNext ==
    \/ \E u \in accounts \cup {NoUser} : AppStart(u)
    \/ \E u \in accounts : SignInAs(u)
    \/ \E c \in Clients, raw \in Names, pw \in PasswordLengths :
          RegisterSubmit(c, raw, pw)
    \/ \E c \in Clients : CheckResolves(c)
    \/ \E c \in Clients : AccountCreated(c)
    \/ \E c \in Clients : ProfileUpdated(c)
    \/ \E c \in Clients : ProfileWritten(c)
    \/ \E i \in DOMAIN fetches : FetchResolves(i)
    \/ Logout
    \/ \E v \in {"chats", "settings"} : SetView(v)
    \/ \E other \in Users : SelectChat(other)
    \/ Back
    \/ \E name \in Names : SettingsSave(name)

SpecApp == AppInit /\ [][AppNext]_vars

-----------------------------------------------------------------------------
(* Claims about chat-session addressing, checked under SpecKey *)

DelimFreeIds == {s \in Ids : ~HasDelim(s)}

Smaller(a, b) == IF StrLess(b, a) THEN b ELSE a
Larger(a, b) == IF StrLess(b, a) THEN a ELSE b

\* C1: getChatId(a, b) = getChatId(b, a) for every pair of identifiers: the
\* key the room was opened with is the key the other argument order gives.
C1_KeySymmetric ==
    keyPc # "ids" => chatId = getChatId(uid2, uid1)

\* C1 witness: a key was derived from arguments given in descending order
C1_Witness ==
    keyPc = "keyed" /\ StrLess(uid2, uid1) /\ chatId = getChatId(uid2, uid1)

\* C4: for distinct, non-empty, delimiter-free identifiers, splitting the key
\* on '_' yields exactly two elements, and they are {a, b}.
C4_SplitRecoversPair ==
    (keyPc = "sent" /\ uid1 # uid2 /\ uid1 # <<>> /\ uid2 # <<>>
        /\ ~HasDelim(uid1) /\ ~HasDelim(uid2))
    => /\ Len(participants) = 2
       /\ {participants[1], participants[2]} = {uid1, uid2}

\* C4 witness: sendMessage split the key of two distinct delimiter-free ids
\* that were passed larger first
C4_Witness ==
    /\ keyPc = "sent" /\ uid1 # <<>> /\ uid2 # <<>>
    /\ ~HasDelim(uid1) /\ ~HasDelim(uid2) /\ StrLess(uid2, uid1)
    /\ participants = <<uid2, uid1>>

\* C5: the key is the smaller identifier, then '_', then the larger one; the
\* raw ids "b2" and "a1" give exactly "a1_b2".
C5_KeyIsSortedJoin ==
    keyPc # "ids" =>
        /\ chatId = Smaller(uid1, uid2) \o <<Delim>> \o Larger(uid1, uid2)
        /\ (uid1 = <<98, 50>> /\ uid2 = <<97, 49>>
                => chatId = <<97, 49, 95, 98, 50>>)

\* C5 witness: the key of "b2" and "a1" was derived
C5_Witness ==
    keyPc = "keyed" /\ uid1 = <<98, 50>> /\ uid2 = <<97, 49>>
        /\ chatId = <<97, 49, 95, 98, 50>>

\* C6: on delimiter-free identifiers the key is collision-free: any
\* delimiter-free pair (c, d) with the same key is the same unordered pair.
C6_KeyCollisionFree ==
    (keyPc # "ids" /\ ~HasDelim(uid1) /\ ~HasDelim(uid2))
    => \A c \in DelimFreeIds : \A d \in DelimFreeIds :
          getChatId(c, d) = chatId => {c, d} = {uid1, uid2}

\* C6 witness: a key of two distinct delimiter-free ids, one a proper prefix
\* of the other, was derived
C6_Witness ==
    /\ keyPc = "keyed" /\ ~HasDelim(uid1) /\ ~HasDelim(uid2)
    /\ uid1 # <<>> /\ Len(uid2) > Len(uid1)
    /\ SubSeq(uid2, 1, Len(uid1)) = uid1
    /\ getChatId(uid2, uid1) = chatId

-----------------------------------------------------------------------------
(* Claims about the presence reconciler, checked under SpecRoom *)

\* C2: the room shows a user online if and only if the stored isOnline flag
\* is true, lastSeen is present and now - lastSeen < 120000 ms; with the
\* flag true an age of 119000 ms is online, 120000 ms and 121000 ms are not.
C2_OnlineIffFresh ==
    /\ isOnline <=> (/\ Has(otherUser, "isOnline")
                     /\ otherUser.isOnline = TRUE
                     /\ Has(otherUser, "lastSeen")
                     /\ now - otherUser.lastSeen < 120000)
    /\ (Has(otherUser, "isOnline") /\ Has(otherUser, "lastSeen")
            /\ otherUser.isOnline = TRUE)
       => /\ (now - otherUser.lastSeen = 119000 => isOnline)
          /\ (now - otherUser.lastSeen = 120000 => ~isOnline)
          /\ (now - otherUser.lastSeen = 121000 => ~isOnline)

\* C2 witness: after a refresh of `now`, a flagged-online user whose
\* heartbeat is exactly 120000 ms old is rendered not online
C2_Witness ==
    /\ now > Base
    /\ Has(otherUser, "isOnline") /\ otherUser.isOnline = TRUE
    /\ Has(otherUser, "lastSeen") /\ now - otherUser.lastSeen = 120000
    /\ ~isOnline

\* C3: the room never shows a user online whose stored isOnline flag is
\* falsy, nor one whose lastSeen is absent.
C3_NeverOnlineWithoutFlagOrHeartbeat ==
    /\ (~Has(otherUser, "isOnline") \/ otherUser.isOnline = FALSE) => ~isOnline
    /\ ~Has(otherUser, "lastSeen") => ~isOnline

\* C3 witness: a snapshot delivered isOnline false with a fresh heartbeat
\* and the room renders not online
C3_Witness ==
    /\ Has(otherUser, "isOnline") /\ otherUser.isOnline = FALSE
    /\ Has(otherUser, "lastSeen") /\ now > Base
    /\ now - otherUser.lastSeen = 30000
    /\ ~isOnline /\ statusText.tier = "justNow"

-----------------------------------------------------------------------------
(* Claims about the presence lifecycle driver, checked under SpecDriver *)

Last(q) == q[Len(q)]

\* ws is q with exactly one more write at its end
OneMore(q, ws) == Len(ws) = Len(q) + 1 /\ SubSeq(ws, 1, Len(q)) = q

\* C7: when the driver starts for a signed-in user it issues one write
\* {isOnline: true, lastSeen: now} to that user's own document, whatever the
\* visibility, and that write is the first one of the new driver instance.
C7_MountWritesOnlineFirst ==
    [][gen' # gen =>
         /\ user' # NoUser
         /\ Len(writes') > Len(writes)
         /\ Last(writes').gen = gen'
         /\ Last(writes').uid = user'
         /\ Last(writes').fields = [isOnline |-> TRUE, lastSeen |-> clock']
         /\ \A i \in 1..(Len(writes') - 1) : writes'[i].gen # gen']_vars

\* C7 witness: the driver started while the document was hidden and its
\* only write so far is the online write to the signed-in user's document
C7_Witness ==
    /\ visibility = "hidden" /\ user # NoUser /\ gen = 1
    /\ Len(writes) = 1
    /\ writes[1].uid = user
    /\ writes[1].fields = [isOnline |-> TRUE, lastSeen |-> clock]

\* C8: while the driver is active every visibility change issues exactly one
\* write, {isOnline: (visibility is visible), lastSeen: now}; so whenever the
\* most recent write carrying isOnline came from a visibility change, its
\* isOnline value matches the current visibility.
C8_VisibilityWritesMatch ==
    /\ [][(user # NoUser /\ visibility' # visibility) =>
            /\ OneMore(writes, writes')
            /\ Last(writes').uid = user
            /\ Last(writes').fields =
                 [isOnline |-> (visibility' = "visible"), lastSeen |-> clock']]_vars
    /\ [](\A i \in DOMAIN writes :
            (/\ writes[i].via = "visibility"
             /\ \A j \in DOMAIN writes :
                   j > i => ~Has(writes[j].fields, "isOnline"))
            => writes[i].fields.isOnline = (visibility = "visible"))

\* C8 witness: hidden, then visible again: an offline write followed by an
\* online write, and the document is visible
C8_Witness ==
    /\ Len(writes) = 3 /\ visibility = "visible" /\ user # NoUser
    /\ writes[2].via = "visibility" /\ writes[2].fields.isOnline = FALSE
    /\ writes[3].via = "visibility" /\ writes[3].fields.isOnline = TRUE
    /\ writes[3].fields.lastSeen = writes[3].at

\* a step in which a heartbeat interval fired
HeartbeatFired == timers' # timers /\ user' = user

\* C9: a heartbeat tick issues a write only when the document is visible, the
\* write holds lastSeen = now and nothing else, and applying it leaves the
\* persisted isOnline as it was; a tick while hidden issues no write.
C9_HeartbeatOnlyLastSeen ==
    /\ [][HeartbeatFired =>
            IF visibility = "visible"
            THEN /\ OneMore(writes, writes')
                 /\ Last(writes').fields = [lastSeen |-> clock']
            ELSE writes' = writes]_vars
    /\ [][\A i \in DOMAIN writes :
            (status[i] = "pending" /\ status'[i] = "applied"
                /\ writes[i].via = "heartbeat")
            => LET before == db[writes[i].uid]
                   after == db'[writes[i].uid]
               IN  /\ Has(after, "isOnline") <=> Has(before, "isOnline")
                   /\ Has(before, "isOnline")
                        => after.isOnline = before.isOnline
                   /\ after.lastSeen = writes[i].at]_vars

\* C9 witness: a heartbeat write was applied after the offline write of a
\* cancelled unload: the persisted flag is still false, lastSeen is fresh
C9_Witness ==
    \E i \in DOMAIN writes :
        /\ writes[i].via = "heartbeat" /\ status[i] = "applied"
        /\ DOMAIN writes[i].fields = {"lastSeen"}
        /\ Has(db[writes[i].uid], "isOnline")
        /\ db[writes[i].uid].isOnline = FALSE
        /\ db[writes[i].uid].lastSeen = writes[i].at
        /\ visibility = "visible"

\* the effect runs that have been torn down
TornDown == {g \in 1..gen : \A m \in mounted : m.gen # g}

\* C10: teardown issues the offline write {isOnline: false, lastSeen: now}
\* and cancels the heartbeat timer and the listeners; the offline write is
\* the last write of that driver instance.
C10_TeardownIsLast ==
    \A g \in TornDown :
        /\ \A l \in listeners : l.gen # g
        /\ \A tm \in timers : tm.gen # g
        /\ \E i \in DOMAIN writes :
              /\ writes[i].gen = g
              /\ writes[i].via = "teardown"
              /\ writes[i].fields = [isOnline |-> FALSE, lastSeen |-> writes[i].at]
              /\ \A j \in DOMAIN writes : j > i => writes[j].gen # g

\* C10 witness: the only instance was torn down on sign-out, a heartbeat
\* period has passed since it started, and its offline write is still the
\* last write issued
C10_Witness ==
    /\ user = NoUser /\ page = "open" /\ gen = 1 /\ timers = {}
    /\ Len(writes) >= 2
    /\ writes[1].via = "mount"
    /\ Last(writes).via = "teardown"
    /\ Last(writes).fields.isOnline = FALSE
    /\ clock > Last(writes).at
    /\ clock >= writes[1].at + HeartbeatPeriod

\* the writes of the log the store rejected
RejectedWrites == {i \in DOMAIN writes : status[i] \in {"logged", "unhandled"}}

\* the writes that set isOnline to true: the mount write and the write of a
\* visibility change to visible
OnlineWrites ==
    {i \in DOMAIN writes :
        Has(writes[i].fields, "isOnline") /\ writes[i].fields.isOnline = TRUE}

\* C12: a rejected online-transition write (mount or visibility regained) is
\* caught inside the driver and leaves the heartbeat running: the interval
\* of that driver instance stays, and its ticks while visible still issue
\* their lastSeen writes.
C12_FailedOnlineWriteKeepsHeartbeat ==
    /\ [](\A i \in OnlineWrites :
            /\ status[i] # "unhandled"
            /\ (i \in RejectedWrites /\ (\E m \in mounted : m.gen = writes[i].gen))
               => \E tm \in timers : tm.gen = writes[i].gen)
    /\ [][(HeartbeatFired /\ visibility = "visible"
             /\ OnlineWrites \cap RejectedWrites # {})
          => /\ OneMore(writes, writes')
             /\ Last(writes').via = "heartbeat"
             /\ Last(writes').fields = [lastSeen |-> clock']]_vars

\* C12 witness: the mount write was rejected and logged, and a later
\* heartbeat of the same driver instance wrote lastSeen and was applied
C12_Witness ==
    \E i \in OnlineWrites : \E j \in DOMAIN writes :
        /\ writes[i].via = "mount" /\ status[i] = "logged"
        /\ j > i /\ writes[j].via = "heartbeat" /\ writes[j].gen = writes[i].gen
        /\ status[j] = "applied"
        /\ writes[j].at >= writes[i].at + HeartbeatPeriod

\* C13: every presence write the driver issues (mount, visibility change,
\* unload, teardown and heartbeat) has its rejection handled: none ends as
\* an unhandled error.
C13_EveryRejectionHandled ==
    \A i \in DOMAIN writes : status[i] # "unhandled"

\* ms between the observed heartbeat and the room's now
Elapsed == now - otherUser.lastSeen

\* the observed document carries a heartbeat: a Date.now() reading, which is
\* never the 0 the code's falsy test takes for absent
HasHeartbeat == Has(otherUser, "lastSeen") /\ otherUser.lastSeen # 0

\* C15: for a presence that is not online, with lastSeen present and
\* elapsed = now - lastSeen >= 0, the label tier is 'just now' below 120000,
\* 'N minutes ago' from 120000 below 3600000, 'today at' from 3600000 (exactly
\* 1 h) below 86400000, 'yesterday' from 86400000 below 172800000, and the
\* absolute date from there on: one tier for every input.
C15_TierByElapsed ==
    (~isOnline /\ HasHeartbeat /\ Elapsed >= 0)
    => statusText.tier =
         IF Elapsed < 120000 THEN "justNow"
         ELSE IF Elapsed < 3600000 THEN "minutesAgo"
         ELSE IF Elapsed < 86400000 THEN "today"
         ELSE IF Elapsed < 172800000 THEN "yesterday"
         ELSE "date"

\* C15 witness: after a tick of now, a heartbeat a little over 50 h old is
\* labelled with its absolute date
C15_Witness ==
    /\ now > Base /\ ~isOnline /\ HasHeartbeat
    /\ Elapsed >= 180000000
    /\ statusText.tier = "date"

\* C16: in the 'N minutes ago' tier the N shown is floor(elapsed / 60000) and
\* lies in 2..59; elapsed = 150000 ms gives N = 2.
C16_MinutesShown ==
    /\ statusText.tier = "minutesAgo"
       => /\ statusText.n * 60000 <= Elapsed
          /\ Elapsed < (statusText.n + 1) * 60000
          /\ 2 <= statusText.n /\ statusText.n <= 59
    /\ (~isOnline /\ HasHeartbeat /\ Elapsed = 150000)
       => statusText = [tier |-> "minutesAgo", n |-> 2]

\* C16 witness: a heartbeat 120 s old, one tick of now later (150 s), shows
\* as 2 minutes ago
C16_Witness ==
    /\ now > Base /\ HasHeartbeat /\ Elapsed = 150000
    /\ statusText = [tier |-> "minutesAgo", n |-> 2]

\* C17: with lastSeen absent the label is the plain "Offline", whatever
\* isOnline and now are; in particular never "Online".
C17_NoHeartbeatIsOffline ==
    ~Has(otherUser, "lastSeen") => statusText = [tier |-> "Offline"]

\* C17 witness: a document flagged online without any lastSeen, rendered
\* again after a tick of now, reads "Offline"
C17_Witness ==
    /\ otherUser = [isOnline |-> TRUE]
    /\ now > Base
    /\ statusText = [tier |-> "Offline"]

\* write i of the log is applied by the store in this step
AppliedNow(i) == status[i] = "pending" /\ status'[i] = "applied"

\* write i is the newest write of a driver instance that is still mounted in
\* an open page, issued after some write to the same document was rejected:
\* the client's local state is still the one write i was issued in
NewestAfterRejection(i) ==
    /\ i = Len(writes)
    /\ page = "open"
    /\ \E m \in mounted : m.gen = writes[i].gen
    /\ \E j \in RejectedWrites : j < i /\ writes[j].uid = writes[i].uid

\* the persisted presence of u agrees with the client's local state, as of
\* the time t of the client's newest write
PersistedConsistent(u, t) ==
    /\ Has(db[u], "isOnline") /\ Has(db[u], "lastSeen")
    /\ db[u].isOnline = (visibility = "visible")
    /\ db[u].lastSeen = t

\* C20 as stated: after a rejected presence write, the next successful
\* heartbeat write or visibility-transition write makes the persisted
\* {isOnline, lastSeen} agree with the local state again.
C20_NextSuccessfulWriteHeals ==
    [][\A i \in DOMAIN writes :
         (AppliedNow(i) /\ NewestAfterRejection(i)
            /\ writes[i].via \in {"heartbeat", "visibility"})
         => PersistedConsistent(writes[i].uid, writes[i].at)']_vars

\* C20 amended: after a rejected presence write, the next successful
\* visibility-transition write makes the persisted {isOnline, lastSeen} agree
\* with the local state again; a successful heartbeat write refreshes
\* lastSeen only and leaves the persisted isOnline as it was.
C20_VisibilityWriteHeals ==
    [][\A i \in DOMAIN writes :
         /\ (AppliedNow(i) /\ NewestAfterRejection(i)
               /\ writes[i].via = "visibility")
            => PersistedConsistent(writes[i].uid, writes[i].at)'
         /\ (AppliedNow(i) /\ writes[i].via = "heartbeat")
            => LET u == writes[i].uid
               IN  /\ db'[u].lastSeen = writes[i].at
                   /\ Has(db'[u], "isOnline") = Has(db[u], "isOnline")
                   /\ Has(db[u], "isOnline") => db'[u].isOnline = db[u].isOnline]_vars

\* C20 witness: the mount write made while hidden was rejected, the page
\* became visible, and that visibility write was applied: the document says
\* online, as the client is
C20_Witness ==
    \E i \in DOMAIN writes :
        /\ NewestAfterRejection(i)
        /\ writes[i].via = "visibility" /\ status[i] = "applied"
        /\ visibility = "visible"
        /\ PersistedConsistent(writes[i].uid, writes[i].at)

-----------------------------------------------------------------------------
(* Claims about the driver on the time line, checked under SpecScenario *)

\* the log of the run: mount at t = 0, heartbeats at t = 30000, 60000 and
\* 90000, the offline write of the hidden event at t = 95000
ScenarioRun ==
    /\ Len(writes) >= 5
    /\ writes[1].via = "mount" /\ writes[1].at = Base
    /\ \A k \in 1..3 :
          writes[k + 1].via = "heartbeat" /\ writes[k + 1].at = Base + k * 30000
    /\ writes[5].via = "visibility" /\ writes[5].at = Base + 95000
    /\ writes[5].fields.isOnline = FALSE

\* the document has stayed hidden since the hidden event of the run
StaysHidden ==
    /\ visibility = "hidden"
    /\ \A k \in DOMAIN writes : k > 5 => writes[k].via # "visibility"

OfflineWrites ==
    {k \in DOMAIN writes :
        Has(writes[k].fields, "isOnline") /\ writes[k].fields.isOnline = FALSE}

\* C11: a driver started at t = 0 while visible, with heartbeat ticks at
\* t = 30000, 60000, 90000 and the document hidden at t = 95000, records
\* exactly one offline write, at t = 95000, and no write at any later tick
\* while the document stays hidden; in general no step that starts with the
\* document hidden issues a lastSeen-only heartbeat write.
C11_NoHeartbeatWhileHidden ==
    /\ []((ScenarioRun /\ StaysHidden)
            => /\ OfflineWrites = {5}
               /\ Len(writes) = 5)
    /\ [][visibility = "hidden"
          => \A k \in DOMAIN writes' \ DOMAIN writes :
                /\ writes'[k].via # "heartbeat"
                /\ DOMAIN writes'[k].fields # {"lastSeen"}]_vars

\* C11 witness: the run has happened, the document is still hidden at
\* t = 120000 and the tick of t = 120000 has fired
C11_Witness ==
    /\ ScenarioRun /\ StaysHidden
    /\ clock = Base + 120000
    /\ \A tm \in timers : tm.due > clock
    /\ timers # {}

-----------------------------------------------------------------------------
(* Claims about the whole client, checked under SpecAccount *)

\* the presence fields of a user document
PresenceOf(d) == [f \in DOMAIN d \cap {"isOnline", "lastSeen"} |-> d[f]]

\* C14: every write the presence driver issues targets the user document of
\* the session it runs for (the account signed in before or after the step);
\* the presence fields of an account that is not the signed-in one change
\* only when the store applies a driver write addressed to that account's
\* own document, so neither the driver nor profile save, registration or
\* message send writes another user's presence.
C14_OwnDocumentOnly ==
    [][/\ \A k \in DOMAIN writes' \ DOMAIN writes :
             writes'[k].uid \in {user, user'} \ {NoUser}
       /\ \A u \in Users :
             (PresenceOf(db'[u]) # PresenceOf(db[u]) /\ u # user)
             => \E i \in DOMAIN writes : AppliedNow(i) /\ writes[i].uid = u]_vars

\* C14 witness: u1's session wrote its presence, saved its profile and sent
\* a message to u2, and u2's document is still without presence fields
C14_Witness ==
    /\ user = "u1"
    /\ \E i \in DOMAIN writes : status[i] = "applied" /\ writes[i].uid = "u1"
    /\ Has(db["u1"], "isOnline") /\ Has(db["u1"], "username")
    /\ messages # <<>>
    /\ PresenceOf(db["u2"]) = EmptyDoc

-----------------------------------------------------------------------------
(* Claims about a client and its observer, checked under SpecLive *)

\* the store holds the observed client as online
PersistedOnline ==
    /\ Has(db[Observed], "isOnline") /\ db[Observed].isOnline = TRUE
    /\ Has(db[Observed], "lastSeen")

\* the time T of the observed client's last lastSeen write
LastBeat == db[Observed].lastSeen

\* the room is mounted and shows the document the store holds
Observing == RoomMounted /\ otherUser = db[Observed]

\* C18 as stated: at most one missed heartbeat is tolerated: once a client
\* persisted as online has made no lastSeen write for more than 60 s (two
\* consecutive heartbeats missed), an observer whose now is fresh classifies
\* it not online.
C18_TwoMissedBeatsOffline ==
    (PersistedOnline /\ Observing /\ now = clock /\ clock - LastBeat > 60000)
    => ~isOnline

\* C18 amended: three missed heartbeats are tolerated: a client persisted as
\* online is classified online while the observer's now is less than 120 s
\* past its last lastSeen write, and not online from 120 s on, that is once
\* the fourth consecutive heartbeat is missed.
C18_FourMissedBeatsOffline ==
    (PersistedOnline /\ Observing)
    => /\ now - LastBeat >= 120000 => ~isOnline
       /\ now - LastBeat < 120000 => isOnline

\* C18 witness: the client died, its heartbeats of 30, 60 and 90 s after the
\* last write are missed, and the observer's fresh now still classifies it
\* online
C18_Witness ==
    /\ page = "closed" /\ PersistedOnline /\ Observing
    /\ clock - LastBeat = 90000 /\ now = clock
    /\ isOnline

\* C19: a client that died without teardown (persisted isOnline true, last
\* lastSeen = T) is classified not online at every local now >= T + 120000,
\* and, the observer refreshing now every 30 s, is displayed as not online
\* no later than 150 s after T.
C19_DeadClientShownOffline ==
    (page = "closed" /\ PersistedOnline /\ RoomMounted)
    => /\ now >= LastBeat + 120000 => ~isOnline
       /\ clock >= LastBeat + 150000 => ~isOnline

\* C19 witness: 150 s after the last write of a dead client whose document
\* still says online, the room that showed it online before shows the
\* minutes-ago label
C19_Witness ==
    /\ page = "closed" /\ PersistedOnline /\ Observing
    /\ clock = LastBeat + 150000
    /\ now < LastBeat + 150000
    /\ ~isOnline /\ statusText.tier = "minutesAgo"

-----------------------------------------------------------------------------
(* Claims about the order of presence writes, checked under SpecDriver *)

\* writes i and i + 1 are the two writes of a visibility flicker of one
\* driver instance: hidden, then visible again at once
Flicker(i) ==
    /\ i + 1 \in DOMAIN writes
    /\ writes[i].via = "visibility" /\ writes[i].fields.isOnline = FALSE
    /\ writes[i + 1].via = "visibility" /\ writes[i + 1].fields.isOnline = TRUE
    /\ writes[i + 1].gen = writes[i].gen
    /\ writes[i + 1].at = writes[i].at

-----------------------------------------------------------------------------
(* Claims about two sessions of one account, checked under SpecDevices *)

\* the second device hides its document or signs out in this step
SecondGoesOffline ==
    /\ second.user = Observed
    /\ \/ second'.user = NoUser
       \/ second.visibility = "visible" /\ second'.visibility = "hidden"

\* the first device is signed in, open, visible, with its heartbeat running
FirstSessionLive ==
    /\ user = Observed /\ page = "open" /\ visibility = "visible"
    /\ \E tm \in timers : tm.uid = Observed

\* C22: two sessions of one account are not reconciled: the offline write
\* of one session sets the persisted isOnline to false whatever the other
\* session is doing, the other session's heartbeat does not set it back,
\* and an observer of a document that is not persisted as online classifies
\* the user as not online.
C22_SessionsNotReconciled ==
    /\ [][SecondGoesOffline
          => /\ Has(db'[Observed], "isOnline")
             /\ db'[Observed].isOnline = FALSE]_vars
    /\ [][(HeartbeatFired /\ Has(db[Observed], "isOnline"))
          => /\ Has(db'[Observed], "isOnline")
             /\ db'[Observed].isOnline = db[Observed].isOnline]_vars
    /\ []((Observing /\ ~PersistedOnline) => ~isOnline)

\* C22 witness: the first session is visible and has just written a
\* heartbeat, the second session is hidden, the persisted isOnline is false
\* and the observing room shows the user as active just now, not online
C22_Witness ==
    /\ FirstSessionLive
    /\ second.user = Observed /\ second.visibility = "hidden"
    /\ clock > Base
    /\ \E tm \in timers : tm.due = clock + HeartbeatPeriod
    /\ Has(db[Observed], "isOnline") /\ db[Observed].isOnline = FALSE
    /\ db[Observed].lastSeen = clock
    /\ Observing /\ now = clock
    /\ ~isOnline /\ statusText.tier = "justNow"

-----------------------------------------------------------------------------
(* Further claims about the presence display, checked under SpecRoom *)

\* the persisted flag of the observed document is true
FlagSet == Has(otherUser, "isOnline") /\ otherUser.isOnline = TRUE

\* C23: the 'just now' tier is produced only for documents whose isOnline
\* flag is falsy; a document with isOnline true, lastSeen present and
\* now - lastSeen < 120000 is labelled "Online"; the label is "Online"
\* exactly when the smart online check is true.
C23_JustNowOnlyWithoutFlag ==
    /\ statusText.tier = "justNow" => ~FlagSet
    /\ (FlagSet /\ Has(otherUser, "lastSeen") /\ now - otherUser.lastSeen < 120000)
       => statusText = [tier |-> "Online"]
    /\ (statusText.tier = "Online") <=> isOnline

\* C23 witness: a document with the flag false and a heartbeat under 120 s
\* old, rendered after a tick of now, reads 'just now'
C23_Witness ==
    /\ now > Base
    /\ Has(otherUser, "isOnline") /\ otherUser.isOnline = FALSE
    /\ HasHeartbeat /\ Elapsed >= 0 /\ Elapsed < 120000
    /\ statusText = [tier |-> "justNow"]

-----------------------------------------------------------------------------
(* Further claims about a client and its observer, checked under SpecLive *)

-----------------------------------------------------------------------------
(* The message list of a chat room *)

\* the list the room of u1 shows
RoomList == rooms["u1"].list

\* the documents of a sequence, as a set
DocsOf(seq) == {seq[i] : i \in DOMAIN seq}

\* the list is in non-decreasing createdAt order
ListSorted ==
    \A i \in 1..(Len(RoomList) - 1) :
        RoomList[i].createdAt <= RoomList[i + 1].createdAt

\* the list holds at most QueryLimit documents, each once, all of the
\* room's chat
ListOfRoom ==
    /\ Len(RoomList) <= QueryLimit
    /\ Cardinality(DocsOf(RoomList)) = Len(RoomList)
    /\ \A i \in DOMAIN RoomList : RoomList[i].chatId = RoomChatId

\* a snapshot callback that changes the list leaves exactly the documents
\* of a snapshot the store could deliver
ListFromSnapshot ==
    RoomList' # RoomList =>
        \E docs \in Snapshots(RoomChatId) :
            /\ Len(RoomList') = Len(docs)
            /\ DocsOf(RoomList') = DocsOf(docs)

\* C25: after every message-snapshot callback the room's list holds exactly
\* the documents of that snapshot, at most QueryLimit of them and all of the
\* room's chat, in non-decreasing createdAt order, whatever the order of
\* delivery
C25_ListIsSortedSnapshot ==
    /\ [](ListSorted /\ ListOfRoom)
    /\ [][ListFromSnapshot]_vars

\* reached: the chat holds more than QueryLimit messages, the list shows
\* QueryLimit of them, a new one after the old ones that were stored
\* newest first
C25_Witness ==
    /\ Len(Filter(messages, RoomChatId)) > QueryLimit
    /\ Len(RoomList) = QueryLimit
    /\ RoomList[QueryLimit].createdAt >= Base
    /\ RoomList[1].createdAt < RoomList[2].createdAt
    /\ messages[1].createdAt > messages[2].createdAt

-----------------------------------------------------------------------------
(* Sending from a chat room *)

\* each room has at most one sendMessage call in flight, and isSending says
\* whether it has one
OneSendPerRoom ==
    \A p \in Users :
        /\ Cardinality(CallsOf(p)) <= 1
        /\ rooms[p].isSending <=> CallsOf(p) # {}

\* a step that starts a call starts it from a room that is not sending and
\* whose trimmed input is not empty
SendStartsIdle ==
    Len(calls') > Len(calls) =>
        LET c == calls'[Len(calls')]
        IN  /\ ~rooms[c.room].isSending
            /\ Trim(rooms[c.room].inputText) # <<>>
            /\ CallsOf(c.room) = {}

\* a step that settles a call, resolved or rejected, leaves its room with
\* isSending false
SettleResets ==
    Len(calls') < Len(calls) =>
        \E p \in Users :
            /\ rooms[p].isSending
            /\ ~rooms'[p].isSending

\* C26: a chat room has at most one sendMessage call in flight at any time:
\* handleSend starts no send while isSending is true or the trimmed input is
\* empty, and isSending is false again once the send settles, on success and
\* on failure alike
C26_OneSendInFlight ==
    /\ []OneSendPerRoom
    /\ [][SendStartsIdle /\ SettleResets]_vars

\* reached: the send of u1 failed and gave the text back, u1 typed on while
\* the send of u2 is still in flight
C26_Witness ==
    /\ rooms["u2"].isSending
    /\ rooms["u2"].inputText = <<104>>
    /\ ~rooms["u1"].isSending
    /\ rooms["u1"].inputText = <<104>>
    /\ Len(messages) = 1
    /\ messages[1].senderId = "u1"
    /\ chats = {}

\* C27: sendMessage creates the message document before it writes the chat
\* document, so every chat document that exists has a message document with
\* its chatId, and its participants are its chatId split at the delimiter,
\* also when a write fails between the two and when both participants send
\* at once
C27_ChatHasMessage ==
    \A d \in chats :
        /\ \E i \in DOMAIN messages : messages[i].chatId = d.chatId
        /\ d.participants = participantsFromKey(d.chatId)

\* reached: the chat document exists, both participants have messages in
\* the chat, and two sends are in flight, one of them between its two writes
C27_Witness ==
    /\ chats # {}
    /\ \E i, j \in DOMAIN messages :
          messages[i].senderId = "u1" /\ messages[j].senderId = "u2"
    /\ Len(calls) = 2
    /\ \E i \in DOMAIN calls : calls[i].step = 2

-----------------------------------------------------------------------------
(* Handles, registration and the chat room on show *)

\* C28: handles are unique: after any registrations, two of them at once
\* included, and any profile saves from Settings, no two profile documents
\* have the same username
C28_HandlesUnique ==
    \A u, v \in Users :
        u # v /\ Has(db[u], "username") /\ Has(db[v], "username")
            => db[u].username # db[v].username

\* the registration of c1 went through, its account is the App's user, and
\* no getDoc of the App is awaited
RegisteredAndSettled ==
    /\ regs["c1"].pc = "done"
    /\ app.user = regs["c1"].uid
    /\ db[app.user] # EmptyDoc
    /\ fetches = <<>>

\* C29: after a registration that went through (account created, then
\* profile document written) the App comes to hold a userProfile and leaves
\* the Auth screen with no further user action, however the profile fetch
\* of the auth callback and the write of the profile document interleave:
\* once nothing is awaited any more, the profile is there
C29_RegisteredEntersApp ==
    RegisteredAndSettled =>
        /\ app.userProfile # NoProfile
        /\ ~AuthShown

\* the ChatRoom is rendered
RoomShown == MainShown /\ app.view = "active_chat"

\* C30: whenever the chat room is shown, activeChat is set, the other user
\* is not the current user, and the room's chatId is
\* getChatId(currentUser.uid, otherUser.uid)
C30_RoomOfCurrentUser ==
    RoomShown =>
        /\ app.activeChat # NoChat
        /\ app.activeChat.otherUser # app.userProfile.uid
        /\ app.activeChat.chatId =
               getChatId(UidUnits(app.userProfile.uid),
                         UidUnits(app.activeChat.otherUser))

=============================================================================
